---- MODULE Spec2Model ----
(***************************************************************************)
(* Good Time Interval algebra of stingray/gti.py.                          *)
(*                                                                         *)
(* Times are small integers: the code only compares, adds and subtracts    *)
(* them.  An array is a record [nd, rows]: nd is the number of dimensions  *)
(* numpy gives it (an N x 2 array has nd = 2; np.array([]) and a ragged    *)
(* object array have nd = 1), rows are its rows.  A call returns a record  *)
(* [err, val]: err is "ok" or the name of the exception it raises.         *)
(*                                                                         *)
(* The sample times of a light curve are even numbers, so that half a bin  *)
(* width, (time[1] - time[0]) / 2, is an integer too; interval edges are   *)
(* any integers, so they fall on, between and inside the sample bins.      *)
(*                                                                         *)
(* np.argsort is modelled as numpy computes it for the array sizes of the  *)
(* model (insertion sort below 17 elements): ties keep their input order.  *)
(***************************************************************************)
EXTENDS Integers, Sequences, FiniteSets, TLC

VARIABLES
    gti0, gti1,             \* the interval lists an operation is called with
    gti_list,               \* the lists cross_gtis is called with
    start_time, stop_time,  \* the bounds of get_btis: <<>> is None, <<t>> is t
    time,                   \* the sample times of a light curve
    dt,                     \* the half-widths of the samples: <<>> is None, <<a>> is a
    condition,              \* one boolean per sample
    safe_interval,          \* <<m>> is the number m, <<m0, m1>> the pair
    min_length,             \* the shortest interval create_gti_mask keeps
    chunk_length,           \* the length of the windows cut out of the GTIs
    op,                     \* "start", then the operation that has run
    ret                     \* what the operation returned or raised

\* the arguments that only the operations on light curves and chunks take
samples == <<time, dt, condition, safe_interval, min_length, chunk_length>>

vars == <<gti0, gti1, gti_list, start_time, stop_time, samples, op, ret>>

\* Bounds of the model.
MaxTime == 4
MaxLen == 2
MaxTime3 == 3
MaxLen3 == 2
MaxSamples == 3
MaxDt == 1
MaxMargin == 1
MaxMinLength == 1
MaxChunk == 3
HalfBin == 2
MaxBins == 3
MaxNbin == 2
MaxTimeSep == 5
MaxLenChain == 1
MaxChainRows == 2

----------------------------------------------------------------------------
\* numpy helpers

Max2(a, b) == IF a >= b THEN a ELSE b

Min2(a, b) == IF a <= b THEN a ELSE b

\* np.asarray / np.array of a python list of rows
asarray(rows) ==
    [nd   |-> IF rows # <<>> /\ \A i \in 1..Len(rows) : Len(rows[i]) = Len(rows[1])
              THEN 2 ELSE 1,
     rows |-> rows]

\* an empty array of shape (0, 2), as newgtis[newgtimask] gives when nothing is kept
Empty2 == [nd |-> 2, rows |-> <<>>]

\* gti[:, c]
Column(gti, c) == [i \in 1..Len(gti.rows) |-> gti.rows[i][c]]

\* np.argsort(a): indices of a in increasing order of value, ties in input order
argsort(a) ==
    LET n == Len(a)
        rank(i) == Cardinality({j \in 1..n : a[j] < a[i] \/ (a[j] = a[i] /\ j < i)})
    IN  [k \in 1..n |-> CHOOSE i \in 1..n : rank(i) = k - 1]

\* np.argmax(a) of a non-empty array: the first index of the maximum
argmax(a) ==
    CHOOSE i \in 1..Len(a) :
        /\ \A j \in 1..Len(a) : a[j] <= a[i]
        /\ \A j \in 1..(i - 1) : a[j] < a[i]

\* gti.flatten()
flatten(gti) ==
    [k \in 1..(2 * Len(gti.rows)) |-> gti.rows[(k + 1) \div 2][IF k % 2 = 1 THEN 1 ELSE 2]]

Ok(v) == [err |-> "ok", val |-> v]

Raise(e) == [err |-> e, val |-> asarray(<<>>)]

----------------------------------------------------------------------------
\* check_gtis: "ok", or the exception raised

\* a mutant of check_gtis_overlaps: intervals that touch count as overlapping
check_gtis_overlaps_strict(gti) ==
    \E i \in 2..Len(gti.rows) : ~(gti.rows[i][1] > gti.rows[i - 1][2])

\* not np.all(gti_start[1:] >= gti_end[:-1])
check_gtis_overlaps(gti) ==
    \E i \in 2..Len(gti.rows) : ~(gti.rows[i][1] >= gti.rows[i - 1][2])

check_gtis(gti) ==
    IF gti.nd # 2 \/ \E i \in 1..Len(gti.rows) : Len(gti.rows[i]) < 2
    THEN "IndexError"
    ELSE IF \E i \in 1..Len(gti.rows) : ~(gti.rows[i][2] >= gti.rows[i][1])
    THEN "AssertionError: This GTI is incorrect"
    ELSE IF check_gtis_overlaps(gti)
    THEN "AssertionError: This GTI has overlaps"
    ELSE "ok"

----------------------------------------------------------------------------
\* cross_two_gtis

\* a mutant of not_series: the other series is always series 1 (here 2)
not_series_always_second(this_series) == 2

\* other_series = not this_series (the series are 1 and 2 here, 0 and 1 in the code)
not_series(this_series) == 3 - this_series

\* one pass of the loop over conc_end: st8 = [last_end, final_gti]
cross_step(st8, e, this_series, gti_start, gti_end) ==
    LET other_series == not_series(this_series)
        st_sel == SelectSeq(gti_start[this_series], LAMBDA x : x < e)
        so_sel == SelectSeq(gti_start[other_series], LAMBDA x : x < e)
    IN  IF st_sel = <<>> \/ so_sel = <<>>
        THEN st8
        ELSE LET st_pos == argmax(st_sel)
                 so_pos == argmax(so_sel)
                 st == gti_start[this_series][st_pos]
                 so == gti_start[other_series][so_pos]
                 s == Max2(st, so)
                 cond1 == \E i \in 1..Len(gti_end[other_series]) :
                              gti_end[other_series][i] > s /\ gti_end[other_series][i] < e
                 cond2 == gti_end[other_series][so_pos] < s
             IN  IF s <= st8.last_end
                 THEN st8
                 ELSE IF ~(cond1 \/ cond2)
                 THEN [last_end |-> e, final_gti |-> Append(st8.final_gti, <<s, e>>)]
                 ELSE st8

cross_two_gtis(g0, g1) ==
    IF check_gtis(g0) # "ok" THEN Raise(check_gtis(g0))
    ELSE IF check_gtis(g1) # "ok" THEN Raise(check_gtis(g1))
    ELSE
    LET gti_start == <<Column(g0, 1), Column(g1, 1)>>
        gti_end == <<Column(g0, 2), Column(g1, 2)>>
        n0 == Len(g0.rows)
        n == n0 + Len(g1.rows)
        conc_start0 == gti_start[1] \o gti_start[2]
        conc_end0 == gti_end[1] \o gti_end[2]
        conc_tag0 == [k \in 1..n |-> IF k <= n0 THEN 1 ELSE 2]
        order == argsort(conc_end0)
        conc_start == [k \in 1..n |-> conc_start0[order[k]]]
        conc_end == [k \in 1..n |-> conc_end0[order[k]]]
        conc_tag == [k \in 1..n |-> conc_tag0[order[k]]]
        sweep[ie \in 0..n] ==
            IF ie = 0
            THEN [last_end |-> conc_start[1] - 1, final_gti |-> <<>>]
            ELSE cross_step(sweep[ie - 1], conc_end[ie], conc_tag[ie], gti_start, gti_end)
    IN  IF n = 0 THEN Raise("IndexError")
        ELSE Ok(asarray(sweep[n].final_gti))

----------------------------------------------------------------------------
\* cross_gtis

RECURSIVE cross_gtis_loop(_, _, _)
\* the loop "for gti in gti_list[1:]": acc is gti0, k the next index
cross_gtis_loop(acc, gl, k) ==
    IF k > Len(gl) THEN Ok(acc)
    ELSE LET r == cross_two_gtis(acc, gl[k])
         IN  IF r.err # "ok" THEN r ELSE cross_gtis_loop(r.val, gl, k + 1)

cross_gtis(gl) ==
    IF Len(gl) = 1 THEN Ok(gl[1])
    ELSE cross_gtis_loop(gl[1], gl, 2)

----------------------------------------------------------------------------
\* get_btis

\* assign_value_if_none
assign_value_if_none(value, default) == IF value = <<>> THEN default ELSE value[1]

get_btis(gtis, start, stop) ==
    IF Len(gtis.rows) = 0
    THEN IF start # <<>> /\ stop # <<>>
         THEN Ok(asarray(<< <<start[1], stop[1]>> >>))
         ELSE Raise("AssertionError: Empty GTI and no valid start_time and stop_time. BAD!")
    ELSE IF check_gtis(gtis) # "ok" THEN Raise(check_gtis(gtis))
    ELSE
    LET n == Len(gtis.rows)
        t0 == assign_value_if_none(start, gtis.rows[1][1])
        t1 == assign_value_if_none(stop, gtis.rows[n][2])
        first == IF gtis.rows[1][1] - t0 <= 0 THEN <<>>
                 ELSE << <<gtis.rows[1][1] - t0>> >>
        flat_gtis == flatten(gtis)
        \* zip(flat_gtis[1:-2:2], flat_gtis[2:-1:2])
        new_flat_btis == [i \in 1..(n - 1) |-> <<flat_gtis[2 * i], flat_gtis[2 * i + 1]>>]
        last == IF t1 - gtis.rows[n][2] > 0
                THEN << <<gtis.rows[1][1] - t1>> >>
                ELSE <<>>
    IN  Ok(asarray(first \o new_flat_btis \o last))

----------------------------------------------------------------------------
\* check_separate, append_gtis, join_gtis

check_separate(g0, g1) ==
    IF Len(g0.rows) = 0 \/ Len(g1.rows) = 0 THEN Ok(TRUE)
    ELSE IF check_gtis(g0) # "ok" THEN Raise(check_gtis(g0))
    ELSE IF check_gtis(g1) # "ok" THEN Raise(check_gtis(g1))
    ELSE
    LET gti0_start == g0.rows[1][1]
        gti0_end == g0.rows[Len(g0.rows)][2]
        gti1_start == g1.rows[1][1]
        gti1_end == g1.rows[Len(g1.rows)][2]
    IN  Ok((gti0_end <= gti1_start) \/ (gti1_end <= gti0_start))

\* np.concatenate([gti0, gti1]) of two N x 2 arrays
concatenate(g0, g1) == [nd |-> 2, rows |-> g0.rows \o g1.rows]

append_gtis(g0, g1) ==
    IF check_gtis(g0) # "ok" THEN Raise(check_gtis(g0))
    ELSE IF check_gtis(g1) # "ok" THEN Raise(check_gtis(g1))
    ELSE IF check_separate(g0, g1).err # "ok" THEN check_separate(g0, g1)
    ELSE IF ~check_separate(g0, g1).val
    THEN Raise("ValueError")
    ELSE Ok(concatenate(g0, g1))

\* the sweep of join_gtis over the boundaries of both lists
join_sweep(g0, g1) ==
    LET f0 == flatten(g0)
        f1 == flatten(g1)
        \* opening: -1, closing: 1
        g0_type == [k \in 1..Len(f0) |-> IF k % 2 = 1 THEN -1 ELSE 1]
        g1_type == [k \in 1..Len(f1) |-> IF k % 2 = 1 THEN -1 ELSE 1]
        g_all0 == f0 \o f1
        g_type_all0 == g0_type \o g1_type
        n == Len(g_all0)
        order == argsort(g_all0)
        g_all == [k \in 1..n |-> g_all0[order[k]]]
        g_type_all == [k \in 1..n |-> g_type_all0[order[k]]]
        sums[k \in 0..n] == IF k = 0 THEN 0 ELSE sums[k - 1] + g_type_all[k]
        closing_bins == [k \in 1..n |-> sums[k] = 0]
        \* np.roll(closing_bins, 1)
        starting_bins == [k \in 1..n |-> closing_bins[IF k = 1 THEN n ELSE k - 1]]
        idx == [k \in 1..n |-> k]
        starting_times == [j \in DOMAIN SelectSeq(idx, LAMBDA k : starting_bins[k]) |->
                              g_all[SelectSeq(idx, LAMBDA k : starting_bins[k])[j]]]
        closing_times == [j \in DOMAIN SelectSeq(idx, LAMBDA k : closing_bins[k]) |->
                             g_all[SelectSeq(idx, LAMBDA k : closing_bins[k])[j]]]
        m == Min2(Len(starting_times), Len(closing_times))
        \* np.sort(final_gti, axis=0): each column sorted on its own
        ostart == argsort(SubSeq(starting_times, 1, m))
        ostop == argsort(SubSeq(closing_times, 1, m))
    IN  [nd |-> 2,
         rows |-> [j \in 1..m |-> <<starting_times[ostart[j]], closing_times[ostop[j]]>>]]

join_gtis(g0, g1) ==
    IF check_gtis(g0) # "ok" THEN Raise(check_gtis(g0))
    ELSE IF check_gtis(g1) # "ok" THEN Raise(check_gtis(g1))
    ELSE IF check_separate(g0, g1).val
    THEN append_gtis(g0, g1)
    ELSE Ok(join_sweep(g0, g1))

----------------------------------------------------------------------------
\* create_gti_mask

\* a mutant of gti_is_kept: an interval as long as min_length is not kept
gti_is_kept_if_longer(limmin, limmax, minlen) == limmax - limmin > minlen

\* if limmax - limmin >= min_length
gti_is_kept(limmin, limmax, minlen) == limmax - limmin >= minlen

\* a mutant of sample_is_good: the half-width of the sample is ignored
sample_is_good_by_time(ti, dti, limmin, limmax) == ti >= limmin /\ ti <= limmax

\* good = np.logical_and(time - dt >= limmin, time + dt <= limmax), for one sample
sample_is_good(ti, dti, limmin, limmax) == ti - dti >= limmin /\ ti + dti <= limmax

\* a number as safe_interval stands for the pair [safe_interval, safe_interval]
safe_interval_pair(si) == IF Len(si) = 1 THEN <<si[1], si[1]>> ELSE si

\* np.zeros_like(time) + (time[1] - time[0]) / 2
default_dt(t) == [i \in 1..Len(t) |-> (t[2] - t[1]) \div 2]

\* one pass of the loop over gtis: st8 = [mask, newgtis, newgtimask]
mask_step(st8, ig, gti, t, dtv, si, minlen) ==
    LET limmin == gti[1] + si[1]
        limmax == gti[2] - si[2]
        good == [i \in 1..Len(t) |-> sample_is_good(t[i], dtv[i], limmin, limmax)]
    IN  IF gti_is_kept(limmin, limmax, minlen)
        THEN [mask       |-> [i \in 1..Len(t) |-> IF good[i] THEN TRUE ELSE st8.mask[i]],
              newgtis    |-> [st8.newgtis EXCEPT ![ig] = <<limmin, limmax>>],
              newgtimask |-> [st8.newgtimask EXCEPT ![ig] = TRUE]]
        ELSE st8

\* the value is [mask], or [mask, new_gtis] with return_new_gtis
create_gti_mask(t, gtis, si0, minlen, return_new_gtis, dt0) ==
    IF check_gtis(gtis) # "ok" THEN Raise(check_gtis(gtis))
    \* time[1] is evaluated whether dt is given or not
    ELSE IF Len(t) < 2 THEN Raise("IndexError")
    ELSE
    LET n == Len(gtis.rows)
        dtv == assign_value_if_none(dt0, default_dt(t))
        si == safe_interval_pair(si0)
        loop[ig \in 0..n] ==
            IF ig = 0
            THEN [mask       |-> [i \in 1..Len(t) |-> FALSE],
                  newgtis    |-> [i \in 1..n |-> <<0, 0>>],
                  newgtimask |-> [i \in 1..n |-> FALSE]]
            ELSE mask_step(loop[ig - 1], ig, gtis.rows[ig], t, dtv, si, minlen)
        idx == [i \in 1..n |-> i]
        kept == SelectSeq(idx, LAMBDA i : loop[n].newgtimask[i])
        \* newgtis[newgtimask]
        new_gtis == [nd |-> 2, rows |-> [j \in 1..Len(kept) |-> loop[n].newgtis[kept[j]]]]
    IN  Ok(IF return_new_gtis
           THEN [mask |-> loop[n].mask, new_gtis |-> new_gtis]
           ELSE [mask |-> loop[n].mask])

----------------------------------------------------------------------------
\* create_gti_from_condition

\* contiguous_regions of stingray.utils: an edge detector over the condition
\* array gives the [start, stop) index pairs of the maximal runs of True, the
\* runs that touch the first or the last sample included
contiguous_regions(c) ==
    LET n == Len(c)
        idx == [i \in 1..(n - 1) |-> i + 1]
        edges == SelectSeq(idx, LAMBDA i : c[i] # c[i - 1])
        all == (IF c[1] THEN <<1>> ELSE <<>>) \o edges \o (IF c[n] THEN <<n + 1>> ELSE <<>>)
    IN  [k \in 1..(Len(all) \div 2) |-> <<all[2 * k - 1], all[2 * k]>>]

\* a mutant of interval_is_dropped: an interval with stop == start is dropped too
interval_is_dropped_if_empty(t0, t1) == t1 - t0 <= 0

\* if t1 - t0 < 0: continue
interval_is_dropped(t0, t1) == t1 - t0 < 0

\* one pass of the loop over idxs: gtis is the list built so far
condition_step(gtis, idx, t, dtv, si) ==
    LET startidx == idx[1]
        stopidx == idx[2] - 1
        t0 == t[startidx] - dtv[startidx] + si[1]
        t1 == t[stopidx] + dtv[stopidx] - si[2]
    IN  IF interval_is_dropped(t0, t1) THEN gtis ELSE Append(gtis, <<t0, t1>>)

create_gti_from_condition(t, c, si0, dt0) ==
    IF Len(t) # Len(c)
    THEN Raise("AssertionError: The length of the condition and time arrays must be the same.")
    \* time[1] is evaluated whether dt is given or not
    ELSE IF Len(t) < 2 THEN Raise("IndexError")
    ELSE
    LET idxs == contiguous_regions(c)
        si == safe_interval_pair(si0)
        dtv == assign_value_if_none(dt0, default_dt(t))
        loop[k \in 0..Len(idxs)] ==
            IF k = 0 THEN <<>> ELSE condition_step(loop[k - 1], idxs[k], t, dtv, si)
    IN  Ok(asarray(loop[Len(idxs)]))

----------------------------------------------------------------------------
\* time_intervals_from_gtis

\* np.arange(start, stop, step) for step > 0: start, start + step, ... below stop
arange(start, stop, step) ==
    LET n == IF stop > start THEN (stop - start + step - 1) \div step ELSE 0
    IN  [k \in 1..n |-> start + (k - 1) * step]

\* one pass of the loop over gtis: the start times appended for the GTI g
time_intervals_step(spectrum_start_times, g, chunk) ==
    IF g[2] - g[1] < chunk
    THEN spectrum_start_times
    ELSE spectrum_start_times \o arange(g[1], g[2] - chunk, chunk)

\* the value is the pair (spectrum_start_times, spectrum_stop_times)
time_intervals_from_gtis(gtis, chunk) ==
    LET n == Len(gtis.rows)
        loop[k \in 0..n] ==
            IF k = 0 THEN <<>> ELSE time_intervals_step(loop[k - 1], gtis.rows[k], chunk)
        spectrum_start_times == loop[n]
    IN  IF ~(Len(spectrum_start_times) > 0)
        THEN Raise("AssertionError: No GTIs are equal to or longer than chunk_length.")
        ELSE Ok(<<spectrum_start_times,
                  [k \in 1..Len(spectrum_start_times) |-> spectrum_start_times[k] + chunk]>>)

----------------------------------------------------------------------------
\* bin_intervals_from_gtis, gti_border_bins: bin indices count from 0, as in
\* the code

Abs(x) == IF x >= 0 THEN x ELSE 0 - x

\* np.argmin(a) of a non-empty array: the first index of the minimum
argmin(a) ==
    CHOOSE i \in 1..Len(a) :
        /\ \A j \in 1..Len(a) : a[j] >= a[i]
        /\ \A j \in 1..(i - 1) : a[j] > a[i]

\* startbin and stopbin of the GTI g, the same lines in both functions
border_bins(g, t) ==
    LET bintime == t[2] - t[1]
        startbin0 == argmin([i \in 1..Len(t) |-> Abs(t[i] - bintime \div 2 - g[1])]) - 1
        stopbin0 == argmin([i \in 1..Len(t) |-> Abs(t[i] + bintime \div 2 - g[2])]) - 1
        startbin == IF t[startbin0 + 1] < g[1] THEN startbin0 + 1 ELSE startbin0
        stopbin == IF t[stopbin0 + 1] < g[2] + bintime \div 2 THEN stopbin0 + 1 ELSE stopbin0
    IN  <<startbin, stopbin>>

\* one pass of the loop over gtis: the start bins appended for the GTI g
bin_intervals_step(spectrum_start_bins, g, chunk, t) ==
    LET bintime == t[2] - t[1]
        nbin == chunk \div bintime
        good == [i \in 1..Len(t) |->
                    (t[i] - bintime \div 2 > g[1]) /\ (t[i] + bintime \div 2 < g[2])]
        b == border_bins(g, t)
    IN  IF g[2] - g[1] < chunk THEN spectrum_start_bins
        ELSE IF \A i \in 1..Len(t) : ~good[i] THEN spectrum_start_bins
        ELSE spectrum_start_bins \o arange(b[1], b[2] - nbin + 1, nbin)

\* the value is the pair (spectrum_start_bins, spectrum_stop_bins)
bin_intervals_from_gtis(gtis, chunk, t) ==
    LET n == Len(gtis.rows)
        nbin == chunk \div (t[2] - t[1])
        loop[k \in 0..n] ==
            IF k = 0 THEN <<>> ELSE bin_intervals_step(loop[k - 1], gtis.rows[k], chunk, t)
        spectrum_start_bins == loop[n]
    IN  IF ~(Len(spectrum_start_bins) > 0)
        THEN Raise("AssertionError: No GTIs are equal to or longer than chunk_length.")
        ELSE Ok(<<spectrum_start_bins,
                  [k \in 1..Len(spectrum_start_bins) |-> spectrum_start_bins[k] + nbin]>>)

\* one pass of the loop over gtis: st8 = <<spectrum_start_bins, spectrum_stop_bins>>
gti_border_step(st8, g, t) ==
    LET bintime == t[2] - t[1]
        good == [i \in 1..Len(t) |->
                    (t[i] - bintime \div 2 >= g[1]) /\ (t[i] + bintime \div 2 <= g[2])]
        b == border_bins(g, t)
    IN  IF \A i \in 1..Len(t) : ~good[i] THEN st8
        ELSE <<Append(st8[1], b[1]), Append(st8[2], b[2])>>

\* the value is the pair (spectrum_start_bins, spectrum_stop_bins)
gti_border_bins(gtis, t) ==
    LET n == Len(gtis.rows)
        loop[k \in 0..n] ==
            IF k = 0 THEN <<<<>>, <<>>>> ELSE gti_border_step(loop[k - 1], gtis.rows[k], t)
    IN  IF ~(Len(loop[n][1]) > 0)
        THEN Raise("AssertionError: No GTIs are equal to or longer than chunk_length.")
        ELSE Ok(loop[n])

----------------------------------------------------------------------------
\* The inputs of the model, and one action per operation.

Times == 0..MaxTime

Times3 == 0..MaxTime3

RowLists(T, n) == [1..n -> (T \X T)]

AllArrays(T, maxlen) ==
    {asarray(r) : r \in UNION {RowLists(T, n) : n \in 0..maxlen}} \cup {Empty2}

ValidArrays(T, maxlen) == {g \in AllArrays(T, maxlen) : check_gtis(g) = "ok"}

Inputs1 == AllArrays(Times, MaxLen)

Inputs2 == ValidArrays(Times, MaxLen)

Inputs3 == ValidArrays(Times3, MaxLen3)

Bounds == {<<>>} \cup {<<t>> : t \in Times}

\* the sample times: even numbers
SampleTimes == {2 * k : k \in 0..(MaxSamples - 1)}

\* the condition arrays of up to MaxSamples samples
Conditions == UNION {[1..n -> BOOLEAN] : n \in 0..MaxSamples}

\* the light curves of up to MaxSamples samples, in any order
TimeArrays == UNION {[1..n -> SampleTimes] : n \in 0..MaxSamples}

\* dt: None, or one half-width per sample
HalfWidths(t) == {<<>>} \cup {<<a>> : a \in [1..Len(t) -> 0..MaxDt]}

\* safe_interval: a number, or a pair of numbers
SafeIntervals ==
    {<<m>> : m \in 0..MaxMargin} \cup ((0..MaxMargin) \X (0..MaxMargin))

MinLengths == (0 - 1)..MaxMinLength

\* the lists for check_separate and append_gtis: long enough a time line for two
\* lists of separated intervals to interleave
InputsSep == ValidArrays(0..MaxTimeSep, MaxLen)

\* the lists a sequence of cross_two_gtis and join_gtis calls starts from and
\* takes at each call
InputsChain == ValidArrays(Times3, MaxLenChain)

\* the chunk lengths: positive
ChunkLengths == 1..MaxChunk

\* the width of the bins of a uniform light curve: GTI edges fall on bin edges,
\* on bin centres and in between
BinWidth == 2 * HalfBin

\* the uniform light curves of two to MaxBins bins of width BinWidth, the first
\* bin starting at 0 or at BinWidth
UniformAxes ==
    {[i \in 1..n |-> HalfBin + BinWidth * (k0 + i - 1)] :
        k0 \in 0..1, n \in 2..(MaxBins - 1)} \cup
    {[i \in 1..MaxBins |-> HalfBin + BinWidth * (i - 1)]}

\* the GTI lists along these light curves
BinInputs == ValidArrays(0..(BinWidth * MaxBins), MaxLen)

\* the chunk lengths of at least one bin, whole numbers of bins or not
BinChunkLengths == {k * HalfBin : k \in 2..(2 * MaxNbin + 1)}

NoRet == [err |-> "none", val |-> asarray(<<>>)]

\* no light curve: the operations on interval lists alone take none
NoSamples ==
    /\ time = <<>>
    /\ dt = <<>>
    /\ condition = <<>>
    /\ safe_interval = <<0>>
    /\ min_length = 0
    /\ chunk_length = 0

\* two interval lists, for the operations on pairs
Init ==
    /\ gti0 \in Inputs2
    /\ gti1 \in Inputs2
    /\ gti_list = <<>>
    /\ start_time = <<>>
    /\ stop_time = <<>>
    /\ NoSamples
    /\ op = "start"
    /\ ret = NoRet

\* any list of rows, valid or not, for check_gtis
InitCheck ==
    /\ gti0 \in Inputs1
    /\ gti1 = asarray(<<>>)
    /\ gti_list = <<>>
    /\ start_time = <<>>
    /\ stop_time = <<>>
    /\ NoSamples
    /\ op = "start"
    /\ ret = NoRet

\* one to three interval lists, for cross_gtis
InitN ==
    /\ gti0 = asarray(<<>>)
    /\ gti1 = asarray(<<>>)
    /\ gti_list \in UNION {[1..n -> Inputs3] : n \in 1..3}
    /\ start_time = <<>>
    /\ stop_time = <<>>
    /\ NoSamples
    /\ op = "start"
    /\ ret = NoRet

\* a GTI list (valid, or np.array([])) and the bounds, for get_btis
InitBtis ==
    /\ gti0 \in Inputs2 \cup {asarray(<<>>)}
    /\ gti1 = asarray(<<>>)
    /\ gti_list = <<>>
    /\ start_time \in Bounds
    /\ stop_time \in Bounds
    /\ NoSamples
    /\ op = "start"
    /\ ret = NoRet

\* a valid GTI list, a light curve, half-widths, margins and a minimum length,
\* for create_gti_mask
InitMask ==
    /\ gti0 \in Inputs3
    /\ gti1 = asarray(<<>>)
    /\ gti_list = <<>>
    /\ start_time = <<>>
    /\ stop_time = <<>>
    /\ time \in TimeArrays
    /\ dt \in HalfWidths(time)
    /\ condition = <<>>
    /\ safe_interval \in SafeIntervals
    /\ min_length \in MinLengths
    /\ chunk_length = 0
    /\ op = "start"
    /\ ret = NoRet

\* a light curve, a condition array of any length, half-widths and margins, for
\* create_gti_from_condition
InitCondition ==
    /\ gti0 = asarray(<<>>)
    /\ gti1 = asarray(<<>>)
    /\ gti_list = <<>>
    /\ start_time = <<>>
    /\ stop_time = <<>>
    /\ time \in TimeArrays
    /\ dt \in HalfWidths(time)
    /\ condition \in Conditions
    /\ safe_interval \in SafeIntervals
    /\ min_length = 0
    /\ chunk_length = 0
    /\ op = "start"
    /\ ret = NoRet

\* a valid GTI list and a chunk length, for time_intervals_from_gtis
InitChunks ==
    /\ gti0 \in Inputs2
    /\ gti1 = asarray(<<>>)
    /\ gti_list = <<>>
    /\ start_time = <<>>
    /\ stop_time = <<>>
    /\ time = <<>>
    /\ dt = <<>>
    /\ condition = <<>>
    /\ safe_interval = <<0>>
    /\ min_length = 0
    /\ chunk_length \in ChunkLengths
    /\ op = "start"
    /\ ret = NoRet

\* a valid GTI list, a uniform light curve and a chunk length, for
\* bin_intervals_from_gtis and gti_border_bins
InitBins ==
    /\ gti0 \in BinInputs
    /\ gti1 = asarray(<<>>)
    /\ gti_list = <<>>
    /\ start_time = <<>>
    /\ stop_time = <<>>
    /\ time \in UniformAxes
    /\ dt = <<>>
    /\ condition = <<>>
    /\ safe_interval = <<0>>
    /\ min_length = 0
    /\ chunk_length \in BinChunkLengths
    /\ op = "start"
    /\ ret = NoRet

\* two interval lists, for check_separate and append_gtis
InitSeparate ==
    /\ gti0 \in InputsSep
    /\ gti1 \in InputsSep
    /\ gti_list = <<>>
    /\ start_time = <<>>
    /\ stop_time = <<>>
    /\ NoSamples
    /\ op = "start"
    /\ ret = NoRet

\* a valid interval list, the first of a sequence of cross_two_gtis and join_gtis
\* calls: gti0 is the current result, gti1 the other list of the last call
InitChain ==
    /\ gti0 \in InputsChain
    /\ gti1 = asarray(<<>>)
    /\ gti_list = <<>>
    /\ start_time = <<>>
    /\ stop_time = <<>>
    /\ NoSamples
    /\ op = "start"
    /\ ret = NoRet

CheckGtis ==
    /\ op = "start"
    /\ op' = "check_gtis"
    /\ ret' = IF check_gtis(gti0) = "ok" THEN Ok(gti0) ELSE Raise(check_gtis(gti0))
    /\ UNCHANGED <<gti0, gti1, gti_list, start_time, stop_time, samples>>

CrossTwoGtis ==
    /\ op = "start"
    /\ op' = "cross_two_gtis"
    /\ ret' = cross_two_gtis(gti0, gti1)
    /\ UNCHANGED <<gti0, gti1, gti_list, start_time, stop_time, samples>>

CrossGtis ==
    /\ op = "start"
    /\ op' = "cross_gtis"
    /\ ret' = cross_gtis(gti_list)
    /\ UNCHANGED <<gti0, gti1, gti_list, start_time, stop_time, samples>>

CheckSeparate ==
    /\ op = "start"
    /\ op' = "check_separate"
    /\ ret' = check_separate(gti0, gti1)
    /\ UNCHANGED <<gti0, gti1, gti_list, start_time, stop_time, samples>>

AppendGtis ==
    /\ op = "start"
    /\ op' = "append_gtis"
    /\ ret' = append_gtis(gti0, gti1)
    /\ UNCHANGED <<gti0, gti1, gti_list, start_time, stop_time, samples>>

JoinGtis ==
    /\ op = "start"
    /\ op' = "join_gtis"
    /\ ret' = join_gtis(gti0, gti1)
    /\ UNCHANGED <<gti0, gti1, gti_list, start_time, stop_time, samples>>

\* get_btis(gti0, start_time, stop_time); the complement it returns becomes gti1
GetBtis ==
    /\ op = "start"
    /\ op' = "get_btis"
    /\ ret' = get_btis(gti0, start_time, stop_time)
    /\ gti1' = get_btis(gti0, start_time, stop_time).val
    /\ UNCHANGED <<gti0, gti_list, start_time, stop_time, samples>>

\* cross_two_gtis(G, C) of a list G and the complement C that get_btis returned
CrossBtis ==
    /\ op = "get_btis"
    /\ ret.err = "ok"
    /\ op' = "cross_btis"
    /\ ret' = cross_two_gtis(gti0, gti1)
    /\ UNCHANGED <<gti0, gti1, gti_list, start_time, stop_time, samples>>

\* join_gtis(G, C) of a list G and the complement C that get_btis returned
JoinBtis ==
    /\ op = "get_btis"
    /\ ret.err = "ok"
    /\ op' = "join_btis"
    /\ ret' = join_gtis(gti0, gti1)
    /\ UNCHANGED <<gti0, gti1, gti_list, start_time, stop_time, samples>>

CreateGtiMask ==
    /\ op = "start"
    /\ op' = "create_gti_mask"
    /\ \E return_new_gtis \in BOOLEAN :
           ret' = create_gti_mask(time, gti0, safe_interval, min_length, return_new_gtis, dt)
    /\ UNCHANGED <<gti0, gti1, gti_list, start_time, stop_time, samples>>

CreateGtiFromCondition ==
    /\ op = "start"
    /\ op' = "create_gti_from_condition"
    /\ ret' = create_gti_from_condition(time, condition, safe_interval, dt)
    /\ UNCHANGED <<gti0, gti1, gti_list, start_time, stop_time, samples>>

TimeIntervalsFromGtis ==
    /\ op = "start"
    /\ op' = "time_intervals_from_gtis"
    /\ ret' = time_intervals_from_gtis(gti0, chunk_length)
    /\ UNCHANGED <<gti0, gti1, gti_list, start_time, stop_time, samples>>

BinIntervalsFromGtis ==
    /\ op = "start"
    /\ op' = "bin_intervals_from_gtis"
    /\ ret' = bin_intervals_from_gtis(gti0, chunk_length, time)
    /\ UNCHANGED <<gti0, gti1, gti_list, start_time, stop_time, samples>>

GtiBorderBins ==
    /\ op = "start"
    /\ op' = "gti_border_bins"
    /\ ret' = gti_border_bins(gti0, time)
    /\ UNCHANGED <<gti0, gti1, gti_list, start_time, stop_time, samples>>

\* cross_two_gtis of the current result and another valid list, in either order;
\* an exception ends the sequence
ChainCross ==
    /\ op \in {"start", "chain_cross", "chain_join"}
    /\ ret.err \in {"none", "ok"}
    /\ Len(gti0.rows) <= MaxChainRows
    /\ \E other \in InputsChain, swap \in BOOLEAN :
           /\ ret' = IF swap THEN cross_two_gtis(other, gti0) ELSE cross_two_gtis(gti0, other)
           /\ gti0' = IF ret'.err = "ok" THEN ret'.val ELSE gti0
           /\ gti1' = other
    /\ op' = "chain_cross"
    /\ UNCHANGED <<gti_list, start_time, stop_time, samples>>

\* join_gtis of the current result and another valid list, in either order; an
\* exception ends the sequence
ChainJoin ==
    /\ op \in {"start", "chain_cross", "chain_join"}
    /\ ret.err \in {"none", "ok"}
    /\ Len(gti0.rows) <= MaxChainRows
    /\ \E other \in InputsChain, swap \in BOOLEAN :
           /\ ret' = IF swap THEN join_gtis(other, gti0) ELSE join_gtis(gti0, other)
           /\ gti0' = IF ret'.err = "ok" THEN ret'.val ELSE gti0
           /\ gti1' = other
    /\ op' = "chain_join"
    /\ UNCHANGED <<gti_list, start_time, stop_time, samples>>

Next == CrossTwoGtis \/ JoinGtis \/ CheckSeparate \/ AppendGtis

NextCheck == CheckGtis

NextN == CrossGtis

NextBtis == GetBtis \/ CrossBtis \/ JoinBtis

NextMask == CreateGtiMask

NextCondition == CreateGtiFromCondition

NextChunks == TimeIntervalsFromGtis

NextBins == BinIntervalsFromGtis \/ GtiBorderBins

NextSeparate == CheckSeparate \/ AppendGtis

NextChain == ChainCross \/ ChainJoin

Spec == Init /\ [][Next]_vars

SpecCheck == InitCheck /\ [][NextCheck]_vars

SpecN == InitN /\ [][NextN]_vars

SpecBtis == InitBtis /\ [][NextBtis]_vars

SpecMask == InitMask /\ [][NextMask]_vars

SpecCondition == InitCondition /\ [][NextCondition]_vars

SpecChunks == InitChunks /\ [][NextChunks]_vars

SpecBins == InitBins /\ [][NextBins]_vars

SpecSeparate == InitSeparate /\ [][NextSeparate]_vars

SpecChain == InitChain /\ [][NextChain]_vars

----------------------------------------------------------------------------
\* What the properties below speak of.

Range(s) == {s[i] : i \in 1..Len(s)}

NonEmpty(g) == g.rows # <<>>

\* every interval has positive length
Positive(g) == \A i \in 1..Len(g.rows) : g.rows[i][1] < g.rows[i][2]

\* positive-length intervals with a gap between consecutive ones
Strict(g) == Positive(g) /\ \A i \in 2..Len(g.rows) : g.rows[i - 1][2] < g.rows[i][1]

\* two intervals share more than a point
Overlap(a, b) == Max2(a[1], b[1]) < Min2(a[2], b[2])

\* two intervals share at least a point
Meet(a, b) == Max2(a[1], b[1]) <= Min2(a[2], b[2])

\* an interval of one list ends where an interval of the other starts
Touch(g0, g1) ==
    \E a \in Range(g0.rows), b \in Range(g1.rows) : a[2] = b[1] \/ b[2] = a[1]

\* no interval of one list overlaps an interval of the other
Exclusive(g0, g1) ==
    \A a \in Range(g0.rows), b \in Range(g1.rows) : ~Overlap(a, b)

\* a set of rows as the list sorted by start, then stop
SortRows(S) ==
    LET less(x, y) == x[1] < y[1] \/ (x[1] = y[1] /\ x[2] < y[2])
    IN  [k \in 1..Cardinality(S) |->
            CHOOSE x \in S : Cardinality({y \in S : less(y, x)}) = k - 1]

\* a list of rows sorted by start (ties in input order)
SortedByStart(rows) ==
    LET o == argsort([i \in 1..Len(rows) |-> rows[i][1]])
    IN  [i \in 1..Len(rows) |-> rows[o[i]]]

\* the pairwise intersections of positive length
PairCross(R0, R1) ==
    {x \in {<<Max2(a[1], b[1]), Min2(a[2], b[2])>> : a \in R0, b \in R1} : x[1] < x[2]}

RECURSIVE CommonRows(_, _)
\* the intervals common to the lists gl[1..k]
CommonRows(gl, k) ==
    IF k = 1 THEN Range(gl[1].rows)
    ELSE PairCross(CommonRows(gl, k - 1), Range(gl[k].rows))

RECURSIVE Chain(_, _, _)
\* the intervals of S linked to those of K by a chain of pairs that share more
\* than a point (proper) or at least a point
Chain(K, S, proper) ==
    LET K2 == K \cup {b \in S : \E a \in K : IF proper THEN Overlap(a, b) ELSE Meet(a, b)}
    IN  IF K2 = K THEN K ELSE Chain(K2, S, proper)

\* the interval from the earliest start to the latest stop of a set of intervals
Hull(K) ==
    <<CHOOSE x \in {a[1] : a \in K} : \A a \in K : x <= a[1],
      CHOOSE x \in {a[2] : a \in K} : \A a \in K : x >= a[2]>>

\* one merged interval per chain of source intervals, in increasing order
MergedRows(S, proper) == SortRows({Hull(Chain({a}, S, proper)) : a \in S})

\* the points at times t, and the open segments (t, t + 1), that a set of rows covers
Points(R) == {t \in -1..(MaxTime + 1) : \E r \in R : r[1] <= t /\ t <= r[2]}

Segments(R) == {t \in -1..(MaxTime + 1) : \E r \in R : r[1] <= t /\ t + 1 <= r[2]}

\* the gaps of a non-empty GTI list within [t0, t1], as get_btis documents them
ExpectedBtis(g, t0, t1) ==
    LET n == Len(g.rows)
        idx == [i \in 1..(n - 1) |-> i]
        gaps == SelectSeq(idx, LAMBDA i : g.rows[i][2] < g.rows[i + 1][1])
    IN  (IF t0 < g.rows[1][1] THEN << <<t0, g.rows[1][1]>> >> ELSE <<>>)
        \o [j \in 1..Len(gaps) |-> <<g.rows[gaps[j]][2], g.rows[gaps[j] + 1][1]>>]
        \o (IF t1 > g.rows[n][2] THEN << <<g.rows[n][2], t1>> >> ELSE <<>>)

----------------------------------------------------------------------------
\* C1: for valid lists A and B, cross_two_gtis(A, B) is exactly the increasing
\* list of the intersections [max start, min stop] of the pairs that overlap
\* with positive length; lists that only touch give no interval.  Stated on
\* its plainest inputs: non-empty lists of positive-length intervals.
C1_CrossIsIntersection ==
    (op = "cross_two_gtis" /\ NonEmpty(gti0) /\ NonEmpty(gti1)
        /\ Positive(gti0) /\ Positive(gti1))
        => /\ ret.err = "ok"
           /\ ret.val.rows = SortRows(PairCross(Range(gti0.rows), Range(gti1.rows)))

\* C2: for valid lists that are not separate, join_gtis(A, B) is the sorted list
\* of the maximal merged intervals of the union: one interval per chain of
\* overlapping source intervals, from the chain's earliest start to its latest
\* stop.  Either reading of "overlapping" is accepted: sharing more than a point
\* (Overlap) or sharing at least a point (Meet).  Stated for lists of
\* positive-length intervals with a gap between consecutive ones.
C2_JoinIsMergedUnion ==
    (op = "join_gtis" /\ NonEmpty(gti0) /\ NonEmpty(gti1)
        /\ Strict(gti0) /\ Strict(gti1)
        /\ ~check_separate(gti0, gti1).val)
        => /\ ret.err = "ok"
           /\ \/ ret.val.rows = MergedRows(Range(gti0.rows) \cup Range(gti1.rows), TRUE)
              \/ ret.val.rows = MergedRows(Range(gti0.rows) \cup Range(gti1.rows), FALSE)

C4_BtisAreTheGaps ==
    (op = "get_btis" /\ start_time # <<>> /\ stop_time # <<>> /\ Strict(gti0))
        => /\ ret.err = "ok"
           /\ ret.val.rows =
                  IF NonEmpty(gti0)
                  THEN ExpectedBtis(gti0, start_time[1], stop_time[1])
                  ELSE << <<start_time[1], stop_time[1]>> >>

\* C5: for valid lists with check_separate(A, B) True, join_gtis(A, B) is the
\* concatenation of A and B sorted by start time, and cross_two_gtis(A, B) is
\* empty.  Stated for non-empty lists of positive-length intervals with a gap
\* between the two lists.
C5_SeparateJoinAndCross ==
    (NonEmpty(gti0) /\ NonEmpty(gti1) /\ Positive(gti0) /\ Positive(gti1)
        /\ ~Touch(gti0, gti1)
        /\ check_separate(gti0, gti1).val)
        => /\ op = "join_gtis"
                => ret.err = "ok" /\ ret.val.rows = SortedByStart(gti0.rows \o gti1.rows)
           /\ op = "cross_two_gtis"
                => ret.err = "ok" /\ ret.val.rows = <<>>

\* C6: cross_two_gtis(A, B) and cross_two_gtis(B, A) have the same outcome: the
\* same intervals once sorted (or, for two empty lists, the same failure).
C6_CrossCommutes ==
    op = "cross_two_gtis"
        => LET swapped == cross_two_gtis(gti1, gti0)
           IN  /\ ret.err = swapped.err
               /\ SortedByStart(ret.val.rows) = SortedByStart(swapped.val.rows)

\* C6's case: a list of one interval that overlaps both intervals of the other
\* list has been crossed with it, and the two intersections are returned.
C6_Witness ==
    /\ op = "cross_two_gtis"
    /\ Len(gti0.rows) = 1
    /\ Len(gti1.rows) = 2
    /\ Strict(gti0) /\ Strict(gti1) /\ ~Touch(gti0, gti1)
    /\ ret.err = "ok"
    /\ Len(ret.val.rows) = 2
    /\ ret.val.rows = SortRows(PairCross(Range(gti0.rows), Range(gti1.rows)))
    /\ cross_two_gtis(gti1, gti0) = ret

\* C7: cross_two_gtis(A, A) equals A for every valid list A, touching
\* intervals included.  Stated for non-empty lists of positive-length intervals.
C7_CrossIdempotent ==
    (op = "cross_two_gtis" /\ gti0 = gti1 /\ NonEmpty(gti0) /\ Positive(gti0))
        => ret.err = "ok" /\ ret.val.rows = gti0.rows

\* the lists of gl have positive-length intervals, gaps between consecutive
\* ones, and no interval of one list ends where an interval of another starts
PlainLists(gl) ==
    /\ \A i \in 1..Len(gl) : NonEmpty(gl[i]) /\ Strict(gl[i])
    /\ \A i, j \in 1..Len(gl) : i # j => ~Touch(gl[i], gl[j])

\* C8: cross_two_gtis(cross_two_gtis(A, B), C) and cross_two_gtis(A,
\* cross_two_gtis(B, C)) yield the same intervals, also when an inner
\* intersection is empty.  Stated for lists as in PlainLists; the left side is
\* what cross_gtis([A, B, C]) computes.
C8_CrossAssociates ==
    (op = "cross_gtis" /\ Len(gti_list) = 3 /\ PlainLists(gti_list))
        => LET inner == cross_two_gtis(gti_list[2], gti_list[3])
               right == IF inner.err = "ok"
                        THEN cross_two_gtis(gti_list[1], inner.val)
                        ELSE inner
           IN  /\ ret.err = "ok"
               /\ right.err = "ok"
               /\ SortedByStart(ret.val.rows) = SortedByStart(right.val.rows)

\* C9: cross_gtis of one list is that list; of n >= 2 lists it is the intervals
\* common to all of them, an empty list and not a failure when a partial
\* intersection is empty.  Stated for lists as in PlainLists.
C9_CrossGtisIsCommonPart ==
    (op = "cross_gtis" /\ PlainLists(gti_list))
        => /\ ret.err = "ok"
           /\ Len(gti_list) = 1 => ret.val = gti_list[1]
           /\ ret.val.rows = SortRows(CommonRows(gti_list, Len(gti_list)))

\* C10: for a valid non-empty G and bounds t0 <= G[0].start, t1 >= G[-1].stop,
\* C = get_btis(G, t0, t1) is a valid interval list, cross_two_gtis(G, C) is
\* empty and join_gtis(G, C) covers exactly [t0, t1].  Stated for lists of
\* positive-length GTIs with a gap between consecutive ones, and bounds
\* t0 < G[0].start, t1 > G[-1].stop.
C10_ComplementRoundTrip ==
    (NonEmpty(gti0) /\ Strict(gti0) /\ start_time # <<>> /\ stop_time # <<>>
        /\ start_time[1] < gti0.rows[1][1]
        /\ stop_time[1] > gti0.rows[Len(gti0.rows)][2])
        => /\ op = "get_btis" => ret.err = "ok" /\ check_gtis(ret.val) = "ok"
           /\ op = "cross_btis" => ret.err = "ok" /\ ret.val.rows = <<>>
           /\ op = "join_btis"
                => /\ ret.err = "ok"
                   /\ NonEmpty(ret.val)
                   /\ ret.val.rows[1][1] = start_time[1]
                   /\ ret.val.rows[Len(ret.val.rows)][2] = stop_time[1]
                   /\ Points(Range(ret.val.rows)) = start_time[1]..stop_time[1]
                   /\ Segments(Range(ret.val.rows)) = start_time[1]..(stop_time[1] - 1)

\* the GTIs of g shrunk by the margins of si, in input order
Shrunk(g, si) ==
    LET m == IF Len(si) = 1 THEN <<si[1], si[1]>> ELSE si
    IN  [i \in 1..Len(g.rows) |-> <<g.rows[i][1] + m[1], g.rows[i][2] - m[2]>>]

\* the shrunk GTIs that are at least minlen long, in input order
KeptRows(g, si, minlen) == SelectSeq(Shrunk(g, si), LAMBDA r : r[2] - r[1] >= minlen)

\* the half-width of each sample: dt, or half the spacing of the first two samples
HalfWidth(t, dt0) == IF dt0 = <<>> THEN [i \in 1..Len(t) |-> (t[2] - t[1]) \div 2] ELSE dt0[1]

\* the sample times increase
Increasing(t) == \A i \in 2..Len(t) : t[i - 1] < t[i]

\* C11: create_gti_mask(time, gtis, safe_interval=(m0, m1), min_length, dt), for a
\* valid gtis and a light curve of two samples or more, raises no error; an
\* interval [a, b] is kept iff (b - m1) - (a + m0) >= min_length; mask[i] is True
\* iff some kept interval has time[i] - dt[i] >= a + m0 and time[i] + dt[i] <=
\* b - m1; and with return_new_gtis the second result is exactly the kept
\* intervals, shrunk to [a + m0, b - m1], in input order.
C11_MaskAndKeptIntervals ==
    (op = "create_gti_mask" /\ Len(time) >= 2)
        => LET kept == KeptRows(gti0, safe_interval, min_length)
               hw == HalfWidth(time, dt)
           IN  /\ ret.err = "ok"
               /\ Len(ret.val.mask) = Len(time)
               /\ \A i \in 1..Len(time) :
                      ret.val.mask[i] <=>
                          \E r \in Range(kept) :
                              time[i] - hw[i] >= r[1] /\ time[i] + hw[i] <= r[2]
               /\ "new_gtis" \in DOMAIN ret.val
                      => ret.val.new_gtis = [nd |-> 2, rows |-> kept]

\* C11's case: of two GTIs one is kept and the other, which the margins shrink
\* to stop < start, is not (min_length >= 0); the mask has a True and a False
\* bit and the kept interval is returned.
C11_Witness ==
    /\ op = "create_gti_mask"
    /\ ret.err = "ok"
    /\ min_length >= 0
    /\ Len(gti0.rows) = 2
    /\ \E r \in Range(Shrunk(gti0, safe_interval)) : r[2] < r[1]
    /\ "new_gtis" \in DOMAIN ret.val
    /\ Len(ret.val.new_gtis.rows) = 1
    /\ ret.val.new_gtis.rows[1][1] < ret.val.new_gtis.rows[1][2]
    /\ \E i, j \in 1..Len(time) : ret.val.mask[i] /\ ~ret.val.mask[j]

\* C12 as claimed: for half-widths dt >= 0, a sample's mask bit is True if and
\* only if its time lies inside some kept margin-shrunk interval.  Stated for
\* increasing sample times, GTIs of positive length with gaps between them and
\* min_length >= 0.
C12_MaskIffTimeInside ==
    (op = "create_gti_mask" /\ ret.err = "ok" /\ Increasing(time) /\ Strict(gti0)
        /\ min_length >= 0
        /\ \A i \in 1..Len(time) : HalfWidth(time, dt)[i] >= 0)
        => \A i \in 1..Len(time) :
               ret.val.mask[i] <=>
                   \E r \in Range(KeptRows(gti0, safe_interval, min_length)) :
                       r[1] <= time[i] /\ time[i] <= r[2]

\* C12 as amended: for half-widths dt >= 0, every sample whose mask bit is True
\* has its whole bin [time - dt, time + dt], and so its time, inside some kept
\* margin-shrunk interval; conversely a sample whose time lies inside a kept
\* interval has its mask bit True when its whole bin lies inside that interval
\* (always when its dt is 0) and False when its bin lies inside no kept interval.
C12_MaskIffBinInside ==
    (op = "create_gti_mask" /\ ret.err = "ok"
        /\ \A i \in 1..Len(time) : HalfWidth(time, dt)[i] >= 0)
        => LET kept == Range(KeptRows(gti0, safe_interval, min_length))
               hw == HalfWidth(time, dt)
               timeIn(i, r) == r[1] <= time[i] /\ time[i] <= r[2]
               binIn(i, r) == r[1] <= time[i] - hw[i] /\ time[i] + hw[i] <= r[2]
           IN  \A i \in 1..Len(time) :
                   /\ ret.val.mask[i] => \E r \in kept : timeIn(i, r) /\ binIn(i, r)
                   /\ \A r \in kept : timeIn(i, r) /\ binIn(i, r) => ret.val.mask[i]
                   /\ \A r \in kept : timeIn(i, r) /\ hw[i] = 0 => ret.val.mask[i]
                   /\ (\A r \in kept : ~binIn(i, r)) => ~ret.val.mask[i]

\* C12's case: with the default half-width, a sample on the edge of a kept GTI
\* has its time inside the GTI and its mask bit False, while another sample of
\* the same GTI has its mask bit True.
C12_Witness ==
    /\ op = "create_gti_mask"
    /\ ret.err = "ok"
    /\ dt = <<>>
    /\ Increasing(time)
    /\ HalfWidth(time, dt)[1] > 0
    /\ \E r \in Range(KeptRows(gti0, safe_interval, min_length)) :
           \E i, j \in 1..Len(time) :
               /\ time[i] = r[1] /\ time[i] <= r[2] /\ ~ret.val.mask[i]
               /\ r[1] <= time[j] /\ time[j] <= r[2] /\ ret.val.mask[j]

\* the maximal runs [i0, i1] of consecutive True values of c
Runs(c) ==
    {r \in (1..Len(c)) \X (1..Len(c)) :
        /\ r[1] <= r[2]
        /\ \A i \in r[1]..r[2] : c[i]
        /\ r[1] = 1 \/ ~c[r[1] - 1]
        /\ r[2] = Len(c) \/ ~c[r[2] + 1]}

RECURSIVE Windows(_, _, _)
\* the start times of the windows of length c that fit into the GTIs rows[k..]:
\* g0, g0 + c, ... as long as the window ends at or before g1
Windows(rows, k, c) ==
    IF k > Len(rows) THEN <<>>
    ELSE LET g == rows[k]
             n == IF g[2] - g[1] >= c THEN (g[2] - g[1]) \div c ELSE 0
         IN  [j \in 1..n |-> g[1] + (j - 1) * c] \o Windows(rows, k + 1, c)

\* C14: when time_intervals_from_gtis(gtis, c) returns, every GTI [g0, g1] with
\* g1 - g0 >= c has given exactly floor((g1 - g0) / c) windows [g0 + k*c,
\* g0 + (k+1)*c], the window that ends exactly at g1 included, and the GTIs
\* shorter than c none.  Stated for GTIs of positive length with gaps between
\* them.
C14_WindowsFillEachGti ==
    (op = "time_intervals_from_gtis" /\ ret.err = "ok" /\ Strict(gti0))
        => LET starts == Windows(gti0.rows, 1, chunk_length)
           IN  /\ ret.val[1] = starts
               /\ ret.val[2] = [k \in 1..Len(starts) |-> starts[k] + chunk_length]

\* C15: time_intervals_from_gtis(gtis, c) fails with the no-valid-chunks error
\* if and only if every GTI has length < c; whenever some GTI has length >= c
\* it returns at least one window.  Stated for GTIs of positive length with
\* gaps between them.
C15_FailsIffAllShort ==
    (op = "time_intervals_from_gtis" /\ Strict(gti0))
        => LET allShort == \A g \in Range(gti0.rows) : g[2] - g[1] < chunk_length
           IN  /\ allShort <=>
                      ret.err = "AssertionError: No GTIs are equal to or longer than chunk_length."
               /\ ~allShort => ret.err = "ok" /\ Len(ret.val[1]) >= 1

\* the bins (counted from 0) of the light curve t that lie fully inside the GTI g
Enclosed(g, t) ==
    LET w == t[2] - t[1]
    IN  {i \in 0..(Len(t) - 1) : t[i + 1] - w \div 2 >= g[1] /\ t[i + 1] + w \div 2 <= g[2]}

\* C16: when bin_intervals_from_gtis(gtis, c, time) returns on a uniform light
\* curve of bin width w, with nbin = floor(c / w): every range [start_bin,
\* start_bin + nbin) lies within the index range of time and holds only bins
\* that lie fully inside one single GTI; the ranges of one GTI follow each other
\* without overlap; and each GTI has (number of its fully enclosed bins) div nbin
\* ranges.  Stated for GTIs of positive length with gaps between them.
C16_ChunksInsideOneGti ==
    (op = "bin_intervals_from_gtis" /\ ret.err = "ok" /\ Strict(gti0))
        => LET nbin == chunk_length \div (time[2] - time[1])
               starts == ret.val[1]
               stops == ret.val[2]
               bins(k) == starts[k]..(stops[k] - 1)
               of(g) == {k \in 1..Len(starts) : bins(k) \subseteq Enclosed(g, time)}
           IN  /\ Len(stops) = Len(starts)
               /\ \A k \in 1..Len(starts) :
                      /\ stops[k] = starts[k] + nbin
                      /\ 0 <= starts[k] /\ stops[k] <= Len(time)
                      /\ \E g \in Range(gti0.rows) : k \in of(g)
               /\ \A g \in Range(gti0.rows) :
                      /\ Cardinality(of(g)) = Cardinality(Enclosed(g, time)) \div nbin
                      /\ \A k \in of(g) : k + 1 \in of(g) => starts[k + 1] = stops[k]

\* C17: on a uniform light curve of bin width w, gti_border_bins(gtis, time)
\* fails if no GTI fully encloses a bin; otherwise it returns, for every GTI
\* [g0, g1] that fully encloses a bin, the index of the first bin with time -
\* w/2 >= g0 and one past the index of the last bin with time + w/2 <= g1,
\* wherever g0 and g1 lie relative to the bin edges.  Stated for GTIs of
\* positive length with gaps between them.
C17_BordersOfEnclosedBins ==
    (op = "gti_border_bins" /\ Strict(gti0))
        => LET w == time[2] - time[1]
               n == Len(time)
               rows == SelectSeq(gti0.rows, LAMBDA g : Enclosed(g, time) # {})
               first(g) == CHOOSE i \in 0..(n - 1) :
                               /\ time[i + 1] - w \div 2 >= g[1]
                               /\ \A j \in 0..(i - 1) : time[j + 1] - w \div 2 < g[1]
               last(g) == CHOOSE i \in 0..(n - 1) :
                              /\ time[i + 1] + w \div 2 <= g[2]
                              /\ \A j \in (i + 1)..(n - 1) : time[j + 1] + w \div 2 > g[2]
           IN  IF rows = <<>>
               THEN ret.err # "ok"
               ELSE /\ ret.err = "ok"
                    /\ ret.val[1] = [k \in 1..Len(rows) |-> first(rows[k])]
                    /\ ret.val[2] = [k \in 1..Len(rows) |-> last(rows[k]) + 1]

\* C18: check_separate(A, B) returns True if and only if no interval of A
\* overlaps with positive length an interval of B, interleaved lists included,
\* and append_gtis(A, B) raises ValueError exactly when some interval of A
\* overlaps some interval of B.  Stated for non-empty lists of positive-length
\* intervals with gaps between them, no interval of one list ending where an
\* interval of the other starts.
C18_SeparateIffExclusive ==
    (NonEmpty(gti0) /\ NonEmpty(gti1) /\ Strict(gti0) /\ Strict(gti1)
        /\ ~Touch(gti0, gti1))
        => /\ op = "check_separate" => ret = Ok(Exclusive(gti0, gti1))
           /\ op = "append_gtis" => (ret.err = "ValueError" <=> ~Exclusive(gti0, gti1))
           /\ op = "append_gtis" /\ Exclusive(gti0, gti1) => ret.err = "ok"

\* C19: in any sequence of cross_two_gtis and join_gtis calls, each on the
\* previous result and another valid list in either order, every call returns
\* and its result is again a valid interval list: N x 2, stop >= start, sorted
\* by start, no overlaps, passing check_gtis; also when it is empty.  Stated
\* for the calls on a valid non-empty current list and a non-empty other list,
\* both of positive-length intervals with gaps between them, no interval of one
\* ending where an interval of the other starts.
C19_ResultsStayValid ==
    [][(/\ check_gtis(gti0) = "ok"
        /\ NonEmpty(gti0) /\ Strict(gti0)
        /\ NonEmpty(gti1') /\ Strict(gti1')
        /\ ~Touch(gti0, gti1'))
       => (/\ ret'.err = "ok"
           /\ check_gtis(gti0') = "ok"
           /\ \A i \in 1..Len(gti0'.rows) : gti0'.rows[i][2] >= gti0'.rows[i][1]
           /\ \A i \in 2..Len(gti0'.rows) :
                  /\ gti0'.rows[i][1] >= gti0'.rows[i - 1][1]
                  /\ gti0'.rows[i][1] >= gti0'.rows[i - 1][2])]_vars

====
